---- MODULE Spec2Model ----
(***************************************************************************)
(* A state-machine model of the python.observables library:                *)
(*   Observable       (observer lists, registration, dispatch loops)       *)
(*   ObservableValue  (set/get, bind_to/unbind_from, bind/unbind)          *)
(*   ObservableDict, ObservableList, ObservableObject (intercepted writes) *)
(*                                                                         *)
(* The library is single-threaded and synchronous.  A public call runs as  *)
(* a stack of frames; every step of the machine is one iteration of a      *)
(* dispatch loop (one callback invocation), the primitive store between    *)
(* the two loops, or the return of a call.  Callbacks are the lambdas that *)
(* bind_to installs and the callbacks a user registers (one that only      *)
(* records its invocation, one that raises, and three that edit the        *)
(* observer list they are called from).                                    *)
(*                                                                         *)
(* The containers share no state (every constructor makes its own lists),  *)
(* so a behaviour constructs either the ObservableValues, or one           *)
(* ObservableDict, or one ObservableList, or one ObservableObject, and the *)
(* variable live says which.                                               *)
(***************************************************************************)
EXTENDS Integers, Sequences, FiniteSets, TLC

VARIABLES
    live,        \* the objects that have been constructed
    value,       \* ObservableValue._value, per value
    bindingMap,  \* ObservableValue._bindingMap, per value: observable -> lambda
    beforeObs,   \* Observable._beforeObserverList, per object
    afterObs,    \* Observable._afterObserverList, per object
    od,          \* the ObservableDict's items, in insertion order: <<key, value>>
    ol,          \* the ObservableList's elements
    oo,          \* the ObservableObject's instance attributes: name -> value
    stack,       \* the call stack of the public call in progress
    nextId,      \* identity of the next lambda bind_to creates
    call,        \* history: the last public call and the state it started in
    events,      \* history: the dispatches of that call, in order
    log,         \* history: the callback invocations of that call, in order
    nframes,     \* history: the dispatching calls entered during that call
    result       \* how that call ended

vars == <<live, value, bindingMap, beforeObs, afterObs, od, ol, oo, stack,
          nextId, call, events, log, nframes, result>>

(***************************************************************************)
(* Bounds of the model.                                                    *)
(***************************************************************************)
MaxVal == 1        \* stored values are None, 1 .. MaxVal
MaxCallbacks == 3  \* callbacks of one behaviour: the registered ones and bind_to's lambdas
MaxDepth == 6      \* call depth at which the interpreter gives up

(***************************************************************************)
(* Python values.  None is a value different from every number stored and  *)
(* from every index.                                                       *)
(***************************************************************************)
None == -99
Nums == 1 .. MaxVal
PyVals == {None} \cup Nums

Vals == {"a", "b"}
NotAnOV == "x"
Containers == {"od", "ol", "oo"}
Objs == Vals \cup Containers

(***************************************************************************)
(* Callbacks.                                                              *)
(***************************************************************************)
Obs(n) == [kind |-> "log", id |-> n, target |-> "-"]
Raiser == [kind |-> "raise", id |-> 0, target |-> "-"]
UserCbs == {Obs(1), Raiser}

\* callbacks that edit the observer list they are called from: one removes
\* itself, one removes Obs(1), one registers Obs(2) while fewer than
\* MaxCallbacks callbacks are in use
SelfRemover == [kind |-> "unsub", id |-> 0, target |-> "-"]
RemoveOther == [kind |-> "remove", id |-> 0, target |-> "-"]
Adder == [kind |-> "sub", id |-> 0, target |-> "-"]
EditCbs == {SelfRemover, RemoveOther, Adder}

\* a callback that writes the value it observes: lambda o, *_: o.set(MaxVal)
Setter == [kind |-> "set", id |-> MaxVal, target |-> "-"]

\* lambda _1, _2, n: self.set(n)
Fwd(h, self) == [kind |-> "fwd", id |-> h, target |-> self]

(***************************************************************************)
(* Sequence helpers: what list.append, list.remove, x in list do.          *)
(***************************************************************************)
Range(s) == {s[k] : k \in 1 .. Len(s)}

FirstIndex(s, x) == CHOOSE k \in 1 .. Len(s) : s[k] = x /\ \A j \in 1 .. (k - 1) : s[j] # x

DropAt(s, k) == [j \in 1 .. (Len(s) - 1) |-> IF j < k THEN s[j] ELSE s[j + 1]]

ListRemove_last(s, x) ==
    DropAt(s, CHOOSE k \in 1 .. Len(s) : s[k] = x /\ \A j \in (k + 1) .. Len(s) : s[j] # x)

\* list.remove(x) on a list that holds x: the first occurrence goes
ListRemove(s, x) == DropAt(s, FirstIndex(s, x))

ListAppend_front(s, x) == <<x>> \o s

\* list.append(x)
ListAppend(s, x) == Append(s, x)

UserCount(s) == Cardinality({k \in 1 .. Len(s) : s[k].kind # "fwd"})

MapPut(m, k, v) == [y \in DOMAIN m \cup {k} |-> IF y = k THEN v ELSE m[y]]

MapDel(m, k) == [y \in DOMAIN m \ {k} |-> m[y]]

EmptyMap == [y \in {} |-> None]

\* callbacks in use: the user's registrations and the lambdas created so far
InUse ==
    LET RECURSIVE Sum(_)
        Sum(S) == IF S = {} THEN 0
                  ELSE LET o == CHOOSE o \in S : TRUE
                       IN UserCount(beforeObs[o]) + UserCount(afterObs[o]) + Sum(S \ {o})
    IN Sum(live) + (nextId - 1)

(***************************************************************************)
(* The storage of an object, as one value.                                 *)
(***************************************************************************)
Content(obj) ==
    CASE obj \in Vals -> value[obj]
      [] obj = "od" -> od
      [] obj = "ol" -> ol
      [] OTHER -> oo

Storage == [value |-> value, od |-> od, ol |-> ol, oo |-> oo]

(***************************************************************************)
(* Frames, events, history records.                                        *)
(***************************************************************************)
Event(op, loc, old, new) == [op |-> op, loc |-> loc, old |-> old, new |-> new]

NoEvent == Event("-", None, None, None)

Frame(fn, obj, arg, ev, fid) ==
    [fn |-> fn, obj |-> obj, arg |-> arg, ev |-> ev, pc |-> "before", i |-> 0,
     pre |-> Content(obj), fid |-> fid, ret |-> None]

\* a call of _call_before_observers / _call_after_observers, with the length of its list
Dispatch(phase, f) ==
    [phase |-> phase, obj |-> f.obj, ev |-> f.ev, fid |-> f.fid,
     n |-> Len(IF phase = "before" THEN beforeObs[f.obj] ELSE afterObs[f.obj]),
     cbs |-> IF phase = "before" THEN beforeObs[f.obj] ELSE afterObs[f.obj]]

CallRec(op, obj, arg, arg2) ==
    [op |-> op, obj |-> obj, arg |-> arg, arg2 |-> arg2, pre |-> Storage,
     preBefore |-> beforeObs, preAfter |-> afterObs, preBinding |-> bindingMap]

NoCall == [op |-> "-", obj |-> "-", arg |-> None, arg2 |-> None, pre |-> Storage,
           preBefore |-> beforeObs, preAfter |-> afterObs, preBinding |-> bindingMap]

Returned(ret) ==
    [status |-> "returned", err |-> "-", ret |-> ret, fid |-> 0, phase |-> "-", pos |-> 0]

Running ==
    [status |-> "running", err |-> "-", ret |-> None, fid |-> 0, phase |-> "-", pos |-> 0]

Raised(err) ==
    [status |-> "raised", err |-> err, ret |-> None, fid |-> 0, phase |-> "-", pos |-> 0]

\* an error raised while the call of frame f was at position pos of phase
RaisedIn(err, f, phase, pos) ==
    [status |-> "raised", err |-> err, ret |-> None, fid |-> f.fid, phase |-> phase, pos |-> pos]

Idle == stack = <<>>

Top == stack[Len(stack)]

Below == SubSeq(stack, 1, Len(stack) - 1)

(***************************************************************************)
(* ObservableValue.set, its first two lines.                               *)
(***************************************************************************)
SetIsNoop_never(x, n) == FALSE

\* if self._value == new_value: return
SetIsNoop(x, n) == value[x] = n

SetFrame(x, n, fid) == Frame("set", x, None, Event("set", None, value[x], n), fid)

(***************************************************************************)
(* dict, as the sequence of its items in insertion order.                  *)
(***************************************************************************)
Keys == {1, 2}

DictKeys(d) == {d[k][1] : k \in 1 .. Len(d)}

\* key in self
DictHas(d, key) == key \in DictKeys(d)

DictPos(d, key) == CHOOSE k \in 1 .. Len(d) : d[k][1] = key

\* self[key], for a key the dict holds
DictGet(d, key) == d[DictPos(d, key)][2]

\* dict.__setitem__: a present key keeps its place, a new key goes last
DictSet(d, key, v) ==
    IF DictHas(d, key)
    THEN [k \in 1 .. Len(d) |-> IF d[k][1] = key THEN <<key, v>> ELSE d[k]]
    ELSE Append(d, <<key, v>>)

\* dict.__delitem__, dict.pop: the item is dropped (an absent key changes nothing)
DictDel(d, key) == IF DictHas(d, key) THEN DropAt(d, DictPos(d, key)) ELSE d

DictPopLast_first(d) == SubSeq(d, 2, Len(d))

\* dict.popitem: the last item is dropped
DictPopLast(d) == SubSeq(d, 1, Len(d) - 1)

PopResult_default(d, key, default) == default

\* what dict.pop(self, key, default) returns
PopResult(d, key, default) == IF DictHas(d, key) THEN DictGet(d, key) ELSE default

(***************************************************************************)
(* list.  Python indexes from 0 and counts a negative index from the end.  *)
(***************************************************************************)
MaxLen == 3

Norm(s, i) == IF i < 0 THEN i + Len(s) ELSE i

\* self[index] does not raise IndexError
IndexOk(s, i) == Norm(s, i) >= 0 /\ Norm(s, i) < Len(s)

\* self[index]
ListGet(s, i) == s[Norm(s, i) + 1]

InsertAt(s, k, v) ==
    [j \in 1 .. (Len(s) + 1) |-> IF j <= k THEN s[j] ELSE IF j = k + 1 THEN v ELSE s[j - 1]]

\* list.insert clamps the index into 0 .. len
Clamp(s, i) ==
    LET n == Norm(s, i) IN IF n < 0 THEN 0 ELSE IF n > Len(s) THEN Len(s) ELSE n

ListInsert(s, i, v) == InsertAt(s, Clamp(s, i), v)

ListPop(s, i) == DropAt(s, Norm(s, i) + 1)

ListSetItem(s, i, v) == [s EXCEPT ![Norm(s, i) + 1] = v]

ListReverse(s) == [j \in 1 .. Len(s) |-> s[Len(s) + 1 - j]]

RECURSIVE SortAsc(_)
SortAsc(s) ==
    IF Len(s) <= 1 THEN s
    ELSE LET m == CHOOSE k \in 1 .. Len(s) : \A j \in 1 .. Len(s) :
                      s[k] < s[j] \/ (s[k] = s[j] /\ k <= j)
         IN <<s[m]>> \o SortAsc(DropAt(s, m))

\* list.sort(key=None, reverse=reverse)
ListSort(s, reverse) == IF reverse THEN ListReverse(SortAsc(ListReverse(s))) ELSE SortAsc(s)

PyBool(b) == IF b THEN 1 ELSE 0

(***************************************************************************)
(* object attributes.  A name is found on the instance or on the class.    *)
(***************************************************************************)
\* the str "create", the value of the class attribute CREATE
StrCreate == -98

ClassAttrs == {"CREATE"}

ClassValue(name) == StrCreate

PublicNames == {"p", "CREATE"}

PrivateNames == {"_r"}

\* key.startswith("_")
IsReserved(name) == name \in PrivateNames

\* hasattr(self, key)
HasAttr(o, name) == name \in DOMAIN o \/ name \in ClassAttrs

\* getattr(self, key), for a name that is found
GetAttr(o, name) == IF name \in DOMAIN o THEN o[name] ELSE ClassValue(name)

(***************************************************************************)
(* The start of a public call: the history is reset, and the call either   *)
(* enters a dispatching method (frame f, whose _call_before_observers is   *)
(* called first) or ends at once.                                          *)
(***************************************************************************)
Begin(c, stk, nfr, evs, res) ==
    /\ call' = c
    /\ stack' = stk
    /\ nframes' = nfr
    /\ events' = evs
    /\ log' = <<>>
    /\ result' = res

Start(c, f) == Begin(c, <<f>>, 1, <<Dispatch("before", f)>>, Running)

Finish(c, res) == Begin(c, <<>>, 0, <<>>, res)

(***************************************************************************)
(* Observable: registration.                                               *)
(***************************************************************************)
AddBeforeObserver(obj, cb) ==
    /\ Idle /\ obj \in live
    /\ InUse < MaxCallbacks
    /\ beforeObs' = [beforeObs EXCEPT ![obj] = ListAppend(@, cb)]
    /\ Finish(CallRec("add_before_observer", obj, cb, None), Returned(None))
    /\ UNCHANGED <<live, value, bindingMap, afterObs, od, ol, oo, nextId>>

AddAfterObserver(obj, cb) ==
    /\ Idle /\ obj \in live
    /\ InUse < MaxCallbacks
    /\ afterObs' = [afterObs EXCEPT ![obj] = ListAppend(@, cb)]
    /\ Finish(CallRec("add_after_observer", obj, cb, None), Returned(None))
    /\ UNCHANGED <<live, value, bindingMap, beforeObs, od, ol, oo, nextId>>

RemoveBeforeObserver(obj, cb) ==
    /\ Idle /\ obj \in live
    /\ IF cb \in Range(beforeObs[obj])
       THEN /\ beforeObs' = [beforeObs EXCEPT ![obj] = ListRemove(@, cb)]
            /\ Finish(CallRec("remove_before_observer", obj, cb, None), Returned(None))
       ELSE /\ beforeObs' = beforeObs
            /\ Finish(CallRec("remove_before_observer", obj, cb, None), Raised("ValueError"))
    /\ UNCHANGED <<live, value, bindingMap, afterObs, od, ol, oo, nextId>>

RemoveAfterObserver(obj, cb) ==
    /\ Idle /\ obj \in live
    /\ IF cb \in Range(afterObs[obj])
       THEN /\ afterObs' = [afterObs EXCEPT ![obj] = ListRemove(@, cb)]
            /\ Finish(CallRec("remove_after_observer", obj, cb, None), Returned(None))
       ELSE /\ afterObs' = afterObs
            /\ Finish(CallRec("remove_after_observer", obj, cb, None), Raised("ValueError"))
    /\ UNCHANGED <<live, value, bindingMap, beforeObs, od, ol, oo, nextId>>

(***************************************************************************)
(* Observable: the dispatch loops.  A Python for loop over a list reads    *)
(* the element at its position while the position is below the length.     *)
(***************************************************************************)
IsDispatching(f) == f.fn \notin {"bind", "dict.update"}

ObserverList(f) == IF f.pc = "before" THEN beforeObs[f.obj] ELSE afterObs[f.obj]

LogEntry(f, cb) ==
    [fid |-> f.fid, phase |-> f.pc, obj |-> f.obj, ev |-> f.ev, cb |-> cb,
     pos |-> f.i + 1, now |-> Content(f.obj), pre |-> f.pre]

Raises_swallowed(cb) == FALSE

\* the callback raises; the loops have no try/except, so the error unwinds the call
Raises(cb) == cb.kind = "raise"

\* the callbacks that call set: bind_to's lambda sets its own value to the
\* new value of the event, Setter sets the value it is called from
CallsSet(cb) == cb.kind \in {"fwd", "set"}

SetTarget(f, cb) == IF cb.kind = "fwd" THEN cb.target ELSE f.obj

SetArg(f, cb) == IF cb.kind = "fwd" THEN f.ev.new ELSE cb.id

\* the error a callback ends with, "-" for none: RemoveOther calls
\* remove_..._observer(Obs(1)), which raises ValueError when Obs(1) is not there
CallbackError(cb, L) ==
    IF Raises(cb) THEN "CallbackError"
    ELSE IF cb = RemoveOther /\ Obs(1) \notin Range(L) THEN "ValueError"
    ELSE "-"

\* the observer list L the callback is called from, when the callback is done
EditedList(cb, L) ==
    CASE cb = SelfRemover -> ListRemove(L, cb)
      [] cb = RemoveOther /\ Obs(1) \in Range(L) -> ListRemove(L, Obs(1))
      [] cb = Adder /\ InUse < MaxCallbacks -> ListAppend(L, Obs(2))
      [] OTHER -> L

\* callback(*args, **kvargs): one iteration of either loop
StepInvoke ==
    /\ ~Idle
    /\ IsDispatching(Top)
    /\ Top.i < Len(ObserverList(Top))
    /\ LET f == Top
           cb == ObserverList(f)[f.i + 1]
           err == CallbackError(cb, ObserverList(f))
           rest == Append(Below, [f EXCEPT !.i = f.i + 1])
           enters == CallsSet(cb) /\ ~SetIsNoop(SetTarget(f, cb), SetArg(f, cb))
           overflow == enters /\ Len(stack) >= MaxDepth
           g == SetFrame(SetTarget(f, cb), SetArg(f, cb), nframes + 1)
       IN /\ log' = Append(log, LogEntry(f, cb))
          /\ stack' = IF err # "-" \/ overflow THEN <<>>
                      ELSE IF enters THEN Append(rest, g) ELSE rest
          /\ nframes' = IF enters /\ ~overflow THEN nframes + 1 ELSE nframes
          /\ events' = IF enters /\ ~overflow THEN Append(events, Dispatch("before", g))
                       ELSE events
          /\ result' = IF err # "-" THEN RaisedIn(err, f, f.pc, f.i + 1)
                       ELSE IF overflow THEN RaisedIn("RecursionError", f, f.pc, f.i + 1)
                       ELSE result
          /\ beforeObs' = IF f.pc = "before"
                          THEN [beforeObs EXCEPT ![f.obj] = EditedList(cb, @)] ELSE beforeObs
          /\ afterObs' = IF f.pc = "after"
                         THEN [afterObs EXCEPT ![f.obj] = EditedList(cb, @)] ELSE afterObs
    /\ UNCHANGED <<live, value, bindingMap, od, ol, oo, nextId, call>>

(***************************************************************************)
(* The primitive store between the two loops, per method: what the call to *)
(* dict.X / list.X / Observable.__setattr__ / the assignment to _value     *)
(* does to the storage, whether it raises, and what the method returns.    *)
(***************************************************************************)
NewValue_unchanged(f) == value

\* self._value = new_value
NewValue(f) == IF f.fn = "set" THEN [value EXCEPT ![f.obj] = f.ev.new] ELSE value

NewOd(f) ==
    CASE f.fn = "dict.__setitem__" -> DictSet(od, f.ev.loc, f.ev.new)
      [] f.fn = "dict.__delitem__" -> DictDel(od, f.ev.loc)
      [] f.fn = "dict.pop" -> DictDel(od, f.ev.loc)
      [] f.fn = "dict.popitem" -> DictPopLast(od)
      [] f.fn = "dict.clear" -> <<>>
      [] OTHER -> od

NewOl(f) ==
    CASE f.fn = "list.append" -> ListAppend(ol, f.ev.new)
      [] f.fn = "list.clear" -> <<>>
      [] f.fn = "list.extend" -> ol \o f.ev.new
      [] f.fn = "list.insert" -> ListInsert(ol, f.ev.loc, f.ev.new)
      [] f.fn = "list.pop" -> ListPop(ol, f.ev.loc)
      [] f.fn = "list.remove" -> ListRemove(ol, f.ev.old)
      [] f.fn = "list.reverse" -> ListReverse(ol)
      [] f.fn = "list.sort" -> ListSort(ol, f.ev.new = PyBool(TRUE))
      [] f.fn = "list.__setitem__" -> ListSetItem(ol, f.ev.loc, f.ev.new)
      [] OTHER -> ol

NewOo(f) ==
    CASE f.fn = "object.__setattr__" -> MapPut(oo, f.ev.loc, f.ev.new)
      [] f.fn = "object.__delattr__" -> MapDel(oo, f.ev.loc)
      [] OTHER -> oo

StoreError(f) ==
    CASE f.fn = "list.__delitem__" -> "TypeError"      \* dict.__delitem__(self, index) on a list
      [] f.fn = "dict.__delitem__" /\ ~DictHas(od, f.ev.loc) -> "KeyError"
      [] f.fn = "dict.popitem" /\ od = <<>> -> "KeyError"
      [] f.fn = "list.pop" /\ ~IndexOk(ol, f.ev.loc) -> "IndexError"
      [] f.fn = "list.remove" /\ f.ev.old \notin Range(ol) -> "ValueError"
      [] f.fn = "list.__setitem__" /\ ~IndexOk(ol, f.ev.loc) -> "IndexError"
      [] f.fn = "object.__delattr__" /\ f.ev.loc \notin DOMAIN oo -> "AttributeError"
      [] OTHER -> "-"

StoreRet(f) ==
    CASE f.fn = "dict.pop" -> PopResult(od, f.ev.loc, f.arg)
      [] f.fn = "dict.popitem" -> <<f.ev.loc, f.ev.old>>
      [] f.fn = "list.pop" -> ListGet(ol, f.ev.loc)
      [] OTHER -> None

\* the before loop is exhausted: store, then _call_after_observers is called
StepStore ==
    /\ ~Idle
    /\ IsDispatching(Top)
    /\ Top.pc = "before"
    /\ Top.i >= Len(beforeObs[Top.obj])
    /\ LET f == Top
           g == [f EXCEPT !.pc = "after", !.i = 0, !.ret = StoreRet(f)]
       IN IF StoreError(f) # "-"
          THEN /\ stack' = <<>>
               /\ result' = RaisedIn(StoreError(f), f, "store", 0)
               /\ UNCHANGED <<value, od, ol, oo, events>>
          ELSE /\ value' = NewValue(f)
               /\ od' = NewOd(f)
               /\ ol' = NewOl(f)
               /\ oo' = NewOo(f)
               /\ stack' = Append(Below, g)
               /\ events' = Append(events, Dispatch("after", g))
               /\ result' = result
    /\ UNCHANGED <<live, bindingMap, beforeObs, afterObs, nextId, call, log, nframes>>

\* the after loop is exhausted: the method returns to its caller
StepReturn ==
    /\ ~Idle
    /\ IsDispatching(Top)
    /\ Top.pc = "after"
    /\ Top.i >= Len(afterObs[Top.obj])
    /\ stack' = Below
    /\ result' = IF Below = <<>> THEN Returned(Top.ret) ELSE result
    /\ UNCHANGED <<live, value, bindingMap, beforeObs, afterObs, od, ol, oo, nextId,
                   call, events, log, nframes>>

(***************************************************************************)
(* ObservableValue.                                                        *)
(***************************************************************************)
\* set(new_value), called by the user
CallSet(x, v) ==
    /\ Idle /\ x \in live
    /\ IF SetIsNoop(x, v)
       THEN Finish(CallRec("set", x, v, None), Returned(None))
       ELSE Start(CallRec("set", x, v, None), SetFrame(x, v, 1))
    /\ UNCHANGED <<live, value, bindingMap, beforeObs, afterObs, od, ol, oo, nextId>>

\* bind_to: self._bindingMap[observable] = lambda ...; observable.add_after_observer(...)
BindInstall(bm, self, observable, h) == [bm EXCEPT ![self] = MapPut(@, observable, h)]

BindObserve(ao, self, observable, h) == [ao EXCEPT ![observable] = ListAppend(@, h)]

\* bind_to(observable), called by the user
CallBindTo(x, y) ==
    /\ Idle /\ x \in live
    /\ InUse < MaxCallbacks
    /\ IF y \notin Vals
       THEN /\ Finish(CallRec("bind_to", x, y, None), Raised("TypeError"))
            /\ UNCHANGED <<bindingMap, afterObs, nextId>>
       ELSE /\ bindingMap' = BindInstall(bindingMap, x, y, Fwd(nextId, x))
            /\ afterObs' = BindObserve(afterObs, x, y, Fwd(nextId, x))
            /\ nextId' = nextId + 1
            /\ IF SetIsNoop(x, value[y])
               THEN Finish(CallRec("bind_to", x, y, None), Returned(None))
               ELSE Start(CallRec("bind_to", x, y, None), SetFrame(x, value[y], 1))
    /\ UNCHANGED <<live, value, beforeObs, od, ol, oo>>

BindFirst_obs1(obs1, obs2) == obs1

\* bind: the value whose bind_to runs first, obs2.bind_to(obs1)
BindFirst(obs1, obs2) == obs2

BindSecond(obs1, obs2) == IF BindFirst(obs1, obs2) = obs2 THEN obs1 ELSE obs2

\* the rest of bind, to run when the first bind_to has returned
BindFrame(self, observable) ==
    [Frame("bind", self, observable, NoEvent, 0) EXCEPT !.pc = "second", !.pre = None]

\* the static bind(obs1, obs2), up to the set of its first bind_to
CallBind(obs1, obs2) ==
    /\ Idle /\ obs1 \in live /\ obs2 \in live
    /\ InUse + 1 < MaxCallbacks
    /\ LET self == BindFirst(obs1, obs2)
           observable == BindSecond(obs1, obs2)
           h == Fwd(nextId, self)
           c == CallRec("bind", obs1, obs2, None)
           f == SetFrame(self, value[observable], 1)
           k == BindFrame(observable, self)
       IN /\ bindingMap' = BindInstall(bindingMap, self, observable, h)
          /\ afterObs' = BindObserve(afterObs, self, observable, h)
          /\ nextId' = nextId + 1
          /\ IF SetIsNoop(self, value[observable])
             THEN Begin(c, <<k>>, 0, <<>>, Running)
             ELSE Begin(c, <<k, f>>, 1, <<Dispatch("before", f)>>, Running)
    /\ UNCHANGED <<live, value, beforeObs, od, ol, oo>>

\* the second bind_to of bind, up to its set
StepBindSecond ==
    /\ ~Idle
    /\ Top.fn = "bind"
    /\ LET self == Top.obj
           observable == Top.arg
           h == Fwd(nextId, self)
           f == SetFrame(self, value[observable], nframes + 1)
       IN /\ bindingMap' = BindInstall(bindingMap, self, observable, h)
          /\ afterObs' = BindObserve(afterObs, self, observable, h)
          /\ nextId' = nextId + 1
          /\ IF SetIsNoop(self, value[observable])
             THEN /\ stack' = Below
                  /\ result' = IF Below = <<>> THEN Returned(None) ELSE result
                  /\ UNCHANGED <<events, nframes>>
             ELSE /\ stack' = Append(Below, f)
                  /\ events' = Append(events, Dispatch("before", f))
                  /\ nframes' = nframes + 1
                  /\ result' = result
    /\ UNCHANGED <<live, value, beforeObs, od, ol, oo, call, log>>

\* unbind_from: self.remove_after_observer(...) edits the list of self
UnbindList(self, observable) == self

\* unbind_from: the error it raises, "-" for none
UnbindError(bm, ao, self, observable) ==
    IF observable \notin DOMAIN bm[self] THEN "AttributeError"
    ELSE IF bm[self][observable] \notin Range(ao[UnbindList(self, observable)]) THEN "ValueError"
    ELSE "-"

UnbindObservers(bm, ao, self, observable) ==
    [ao EXCEPT ![UnbindList(self, observable)] = ListRemove(@, bm[self][observable])]

UnbindBinding(bm, self, observable) == [bm EXCEPT ![self] = MapDel(@, observable)]

\* unbind_from(observable), called by the user
CallUnbindFrom(x, y) ==
    /\ Idle /\ x \in live
    /\ LET err == UnbindError(bindingMap, afterObs, x, y)
           c == CallRec("unbind_from", x, y, None)
       IN IF err # "-"
          THEN /\ Finish(c, Raised(err))
               /\ UNCHANGED <<bindingMap, afterObs>>
          ELSE /\ afterObs' = UnbindObservers(bindingMap, afterObs, x, y)
               /\ bindingMap' = UnbindBinding(bindingMap, x, y)
               /\ Finish(c, Returned(None))
    /\ UNCHANGED <<live, value, beforeObs, od, ol, oo, nextId>>

\* the static unbind(obs1, obs2): obs1.unbind_from(obs2); obs2.unbind_from(obs1)
CallUnbind(obs1, obs2) ==
    /\ Idle /\ obs1 \in live /\ obs2 \in live
    /\ LET err1 == UnbindError(bindingMap, afterObs, obs1, obs2)
           ao1 == UnbindObservers(bindingMap, afterObs, obs1, obs2)
           bm1 == UnbindBinding(bindingMap, obs1, obs2)
           err2 == UnbindError(bm1, ao1, obs2, obs1)
           c == CallRec("unbind", obs1, obs2, None)
       IN IF err1 # "-"
          THEN /\ Finish(c, Raised(err1))
               /\ UNCHANGED <<bindingMap, afterObs>>
          ELSE IF err2 # "-"
          THEN /\ Finish(c, Raised(err2))
               /\ afterObs' = ao1
               /\ bindingMap' = bm1
          ELSE /\ Finish(c, Returned(None))
               /\ afterObs' = UnbindObservers(bm1, ao1, obs2, obs1)
               /\ bindingMap' = UnbindBinding(bm1, obs2, obs1)
    /\ UNCHANGED <<live, value, beforeObs, od, ol, oo, nextId>>

(***************************************************************************)
(* ObservableDict.                                                         *)
(***************************************************************************)
WriteSuppressed_never(exists, old, new) == FALSE

WriteSuppressed_equal(exists, old, new) == old = new

\* __setitem__ / __setattr__: if old_value == value and operation == MODIFY: return
WriteSuppressed(exists, old, new) == old = new /\ exists

\* operation = MODIFY if exists else CREATE
WriteOp(exists) == IF exists THEN "modify" ELSE "create"

\* od[key] = v
DictSetItem(key, v) ==
    /\ Idle /\ "od" \in live
    /\ LET exists == DictHas(od, key)
           old == IF exists THEN DictGet(od, key) ELSE None
           c == CallRec("dict.__setitem__", "od", key, v)
       IN IF WriteSuppressed(exists, old, v)
          THEN Finish(c, Returned(None))
          ELSE Start(c, Frame("dict.__setitem__", "od", None, Event(WriteOp(exists), key, old, v), 1))
    /\ UNCHANGED <<live, value, bindingMap, beforeObs, afterObs, od, ol, oo, nextId>>

\* del od[key]
DictDelItem(key) ==
    /\ Idle /\ "od" \in live
    /\ LET c == CallRec("dict.__delitem__", "od", key, None)
       IN IF ~DictHas(od, key)
          THEN Finish(c, Raised("KeyError"))
          ELSE Start(c, Frame("dict.__delitem__", "od", None,
                              Event("delete", key, DictGet(od, key), None), 1))
    /\ UNCHANGED <<live, value, bindingMap, beforeObs, afterObs, od, ol, oo, nextId>>

\* od.pop(key, default)
DictPop(key, default) ==
    /\ Idle /\ "od" \in live
    /\ LET c == CallRec("dict.pop", "od", key, default)
       IN IF ~DictHas(od, key)
          THEN Finish(c, Raised("KeyError"))
          ELSE Start(c, Frame("dict.pop", "od", default,
                              Event("delete", key, DictGet(od, key), None), 1))
    /\ UNCHANGED <<live, value, bindingMap, beforeObs, afterObs, od, ol, oo, nextId>>

\* od.popitem()
DictPopItem ==
    /\ Idle /\ "od" \in live
    /\ LET c == CallRec("dict.popitem", "od", None, None)
       IN IF od = <<>>
          THEN Finish(c, Raised("IndexError"))
          ELSE Start(c, Frame("dict.popitem", "od", None,
                              Event("delete", od[Len(od)][1], od[Len(od)][2], None), 1))
    /\ UNCHANGED <<live, value, bindingMap, beforeObs, afterObs, od, ol, oo, nextId>>

\* od.clear()
DictClear ==
    /\ Idle /\ "od" \in live
    /\ Start(CallRec("dict.clear", "od", None, None),
             Frame("dict.clear", "od", None, Event("clear", None, None, None), 1))
    /\ UNCHANGED <<live, value, bindingMap, beforeObs, afterObs, od, ol, oo, nextId>>

\* od.setdefault(key, default): not overridden, dict's own method runs
DictSetDefault(key, default) ==
    /\ Idle /\ "od" \in live
    /\ od' = IF DictHas(od, key) THEN od ELSE Append(od, <<key, default>>)
    /\ Finish(CallRec("dict.setdefault", "od", key, default),
              Returned(IF DictHas(od, key) THEN DictGet(od, key) ELSE default))
    /\ UNCHANGED <<live, value, bindingMap, beforeObs, afterObs, ol, oo, nextId>>

(***************************************************************************)
(* ObservableDict.update.  data is None, a dict or a sequence of pairs;    *)
(* kvargs is a dict.  A dict is the sequence of its items, keys distinct.  *)
(***************************************************************************)
MaxData == 2    \* items of data
MaxKw == 1      \* items of kvargs

Pairs == Keys \X Nums

PairSeqs(n) == UNION {[1 .. m -> Pairs] : m \in 0 .. n}

DistinctKeys(s) == \A j, k \in 1 .. Len(s) : j # k => s[j][1] # s[k][1]

NoData == [kind |-> "none", items |-> <<>>]

DataArgs ==
    {NoData}
    \cup {[kind |-> "dict", items |-> s] : s \in {t \in PairSeqs(MaxData) : DistinctKeys(t)}}
    \cup {[kind |-> "seq", items |-> s] : s \in PairSeqs(MaxData)}

KwArgs == {s \in PairSeqs(MaxKw) : DistinctKeys(s)}

UpdateReturnsEarly_none(data) == data.kind = "none"

\* if not data: return
UpdateReturnsEarly(data) == data.kind = "none" \/ data.items = <<>>

\* the writes of update, in order: a dict's loop ends in a return, a
\* sequence's loop goes on to the loop over kvargs
UpdateWrites(data, kvargs) ==
    IF data.kind = "dict" THEN data.items ELSE data.items \o kvargs

\* self[k] = v inside update: __setitem__ up to its _call_before_observers
SetItemEvent(d, key, v) ==
    Event(WriteOp(DictHas(d, key)), key, IF DictHas(d, key) THEN DictGet(d, key) ELSE None, v)

SetItemSuppressed(d, key, v) ==
    WriteSuppressed(DictHas(d, key), IF DictHas(d, key) THEN DictGet(d, key) ELSE None, v)

\* od.update(data, **kvargs)
DictUpdate(data, kvargs) ==
    /\ Idle /\ "od" \in live
    /\ LET c == CallRec("dict.update", "od", data, kvargs)
           k == [Frame("dict.update", "od", UpdateWrites(data, kvargs), NoEvent, 0)
                    EXCEPT !.pc = "loop"]
       IN IF UpdateReturnsEarly(data)
          THEN Finish(c, Returned(None))
          ELSE Begin(c, <<k>>, 0, <<>>, Running)
    /\ UNCHANGED <<live, value, bindingMap, beforeObs, afterObs, od, ol, oo, nextId>>

\* one iteration of update's loops, or the return when they are exhausted
StepUpdate ==
    /\ ~Idle
    /\ Top.fn = "dict.update"
    /\ IF Top.arg = <<>>
       THEN /\ stack' = Below
            /\ result' = Returned(None)
            /\ UNCHANGED <<events, nframes>>
       ELSE LET key == Head(Top.arg)[1]
                v == Head(Top.arg)[2]
                rest == Append(Below, [Top EXCEPT !.arg = Tail(@)])
                g == Frame("dict.__setitem__", "od", None, SetItemEvent(od, key, v), nframes + 1)
            IN /\ result' = result
               /\ IF SetItemSuppressed(od, key, v)
                  THEN /\ stack' = rest
                       /\ UNCHANGED <<events, nframes>>
                  ELSE /\ stack' = Append(rest, g)
                       /\ events' = Append(events, Dispatch("before", g))
                       /\ nframes' = nframes + 1
    /\ UNCHANGED <<live, value, bindingMap, beforeObs, afterObs, od, ol, oo, nextId, call, log>>

(***************************************************************************)
(* ObservableList.                                                         *)
(***************************************************************************)
MaxElem == 2

Elems == 1 .. MaxElem

Indexes == (0 - MaxLen - 1) .. (MaxLen + 1)

Iterables == {<<>>} \cup {<<e>> : e \in Elems} \cup {<<e, e2>> : e \in Elems, e2 \in Elems}

\* ol.append(value)
ListAppendCall(v) ==
    /\ Idle /\ "ol" \in live
    /\ Len(ol) < MaxLen
    /\ Start(CallRec("list.append", "ol", v, None),
             Frame("list.append", "ol", None, Event("append", Len(ol), None, v), 1))
    /\ UNCHANGED <<live, value, bindingMap, beforeObs, afterObs, od, ol, oo, nextId>>

\* ol.clear()
ListClearCall ==
    /\ Idle /\ "ol" \in live
    /\ Start(CallRec("list.clear", "ol", None, None),
             Frame("list.clear", "ol", None, Event("clear", None, None, None), 1))
    /\ UNCHANGED <<live, value, bindingMap, beforeObs, afterObs, od, ol, oo, nextId>>

ListExtendCall_locAfter(it) ==
    /\ Idle /\ "ol" \in live
    /\ Len(ol) + Len(it) <= MaxLen
    /\ Start(CallRec("list.extend", "ol", it, None),
             Frame("list.extend", "ol", None, Event("extend", Len(ol) + Len(it), None, it), 1))
    /\ UNCHANGED <<live, value, bindingMap, beforeObs, afterObs, od, ol, oo, nextId>>

\* ol.extend(iterable)
ListExtendCall(it) ==
    /\ Idle /\ "ol" \in live
    /\ Len(ol) + Len(it) <= MaxLen
    /\ Start(CallRec("list.extend", "ol", it, None),
             Frame("list.extend", "ol", None, Event("extend", Len(ol), None, it), 1))
    /\ UNCHANGED <<live, value, bindingMap, beforeObs, afterObs, od, ol, oo, nextId>>

\* ol.insert(index, value)
ListInsertCall(i, v) ==
    /\ Idle /\ "ol" \in live
    /\ Len(ol) < MaxLen
    /\ LET c == CallRec("list.insert", "ol", i, v)
       IN IF i < Len(ol) /\ ~IndexOk(ol, i)
          THEN Finish(c, Raised("IndexError"))
          ELSE Start(c, Frame("list.insert", "ol", None,
                              Event("insert", i, IF i < Len(ol) THEN ListGet(ol, i) ELSE None, v), 1))
    /\ UNCHANGED <<live, value, bindingMap, beforeObs, afterObs, od, ol, oo, nextId>>

\* ol.pop(index)
ListPopCall(i) ==
    /\ Idle /\ "ol" \in live
    /\ LET c == CallRec("list.pop", "ol", i, None)
       IN IF ~IndexOk(ol, i)
          THEN Finish(c, Raised("IndexError"))
          ELSE Start(c, Frame("list.pop", "ol", None, Event("delete", i, ListGet(ol, i), None), 1))
    /\ UNCHANGED <<live, value, bindingMap, beforeObs, afterObs, od, ol, oo, nextId>>

\* ol.remove(value)
ListRemoveCall(v) ==
    /\ Idle /\ "ol" \in live
    /\ LET c == CallRec("list.remove", "ol", v, None)
       IN IF v \notin Range(ol)
          THEN Finish(c, Raised("ValueError"))
          ELSE Start(c, Frame("list.remove", "ol", None,
                              Event("delete", FirstIndex(ol, v) - 1, v, None), 1))
    /\ UNCHANGED <<live, value, bindingMap, beforeObs, afterObs, od, ol, oo, nextId>>

\* ol.reverse()
ListReverseCall ==
    /\ Idle /\ "ol" \in live
    /\ Start(CallRec("list.reverse", "ol", None, None),
             Frame("list.reverse", "ol", None, Event("reverse", None, None, None), 1))
    /\ UNCHANGED <<live, value, bindingMap, beforeObs, afterObs, od, ol, oo, nextId>>

\* ol.sort(key=None, reverse=reverse)
ListSortCall(reverse) ==
    /\ Idle /\ "ol" \in live
    /\ Start(CallRec("list.sort", "ol", None, PyBool(reverse)),
             Frame("list.sort", "ol", None, Event("sort", None, None, PyBool(reverse)), 1))
    /\ UNCHANGED <<live, value, bindingMap, beforeObs, afterObs, od, ol, oo, nextId>>

\* ol[index] = value
ListSetItemCall(i, v) ==
    /\ Idle /\ "ol" \in live
    /\ LET c == CallRec("list.__setitem__", "ol", i, v)
       IN IF ~IndexOk(ol, i)
          THEN Finish(c, Raised("IndexError"))
          ELSE IF ListGet(ol, i) = v
          THEN Finish(c, Returned(None))
          ELSE Start(c, Frame("list.__setitem__", "ol", None,
                              Event("modify", i, ListGet(ol, i), v), 1))
    /\ UNCHANGED <<live, value, bindingMap, beforeObs, afterObs, od, ol, oo, nextId>>

\* del ol[index]
ListDelItemCall(i) ==
    /\ Idle /\ "ol" \in live
    /\ LET c == CallRec("list.__delitem__", "ol", i, None)
       IN IF ~IndexOk(ol, i)
          THEN Finish(c, Raised("IndexError"))
          ELSE Start(c, Frame("list.__delitem__", "ol", None,
                              Event("delete", i, ListGet(ol, i), None), 1))
    /\ UNCHANGED <<live, value, bindingMap, beforeObs, afterObs, od, ol, oo, nextId>>

\* ol += iterable: not overridden, list's own __iadd__ runs
ListIAdd(it) ==
    /\ Idle /\ "ol" \in live
    /\ Len(ol) + Len(it) <= MaxLen
    /\ ol' = ol \o it
    /\ Finish(CallRec("list.__iadd__", "ol", it, None), Returned(None))
    /\ UNCHANGED <<live, value, bindingMap, beforeObs, afterObs, od, oo, nextId>>

(***************************************************************************)
(* ObservableObject.                                                       *)
(***************************************************************************)
\* oo.name = v
ObjSetAttr(name, v) ==
    /\ Idle /\ "oo" \in live
    /\ LET exists == HasAttr(oo, name)
           old == IF exists THEN GetAttr(oo, name) ELSE None
           c == CallRec("object.__setattr__", "oo", name, v)
       IN IF IsReserved(name)
          THEN /\ oo' = MapPut(oo, name, v)
               /\ Finish(c, Returned(None))
          ELSE /\ oo' = oo
               /\ IF WriteSuppressed(exists, old, v)
                  THEN Finish(c, Returned(None))
                  ELSE Start(c, Frame("object.__setattr__", "oo", None,
                                      Event(WriteOp(exists), name, old, v), 1))
    /\ UNCHANGED <<live, value, bindingMap, beforeObs, afterObs, od, ol, nextId>>

\* del oo.name
ObjDelAttr(name) ==
    /\ Idle /\ "oo" \in live
    /\ LET c == CallRec("object.__delattr__", "oo", name, None)
       IN IF IsReserved(name)
          THEN IF name \in DOMAIN oo
               THEN /\ oo' = MapDel(oo, name)
                    /\ Finish(c, Returned(None))
               ELSE /\ oo' = oo
                    /\ Finish(c, Raised("AttributeError"))
          ELSE /\ oo' = oo
               /\ IF ~HasAttr(oo, name)
                  THEN Finish(c, Raised("AttributeError"))
                  ELSE Start(c, Frame("object.__delattr__", "oo", None,
                                      Event("delete", name, GetAttr(oo, name), None), 1))
    /\ UNCHANGED <<live, value, bindingMap, beforeObs, afterObs, od, ol, nextId>>

(***************************************************************************)
(* Construction.                                                           *)
(***************************************************************************)
InitCommon ==
    /\ bindingMap = [x \in Vals |-> EmptyMap]
    /\ beforeObs = [o \in Objs |-> <<>>]
    /\ afterObs = [o \in Objs |-> <<>>]
    /\ od = <<>>
    /\ ol = <<>>
    /\ oo = EmptyMap
    /\ stack = <<>>
    /\ nextId = 1
    /\ events = <<>>
    /\ log = <<>>
    /\ nframes = 0
    /\ result = Returned(None)
    /\ call = NoCall

\* ObservableValue(initial_value), once per value
InitValue ==
    /\ live = Vals
    /\ value \in [Vals -> PyVals]
    /\ InitCommon

Observers ==
    \E obj \in Objs, cb \in UserCbs :
        \/ AddBeforeObserver(obj, cb)
        \/ AddAfterObserver(obj, cb)
        \/ RemoveBeforeObserver(obj, cb)
        \/ RemoveAfterObserver(obj, cb)

\* registration of the callbacks that edit the observer lists
EditObservers ==
    \E obj \in Objs, cb \in EditCbs :
        \/ AddBeforeObserver(obj, cb)
        \/ AddAfterObserver(obj, cb)
        \/ RemoveBeforeObserver(obj, cb)
        \/ RemoveAfterObserver(obj, cb)

\* registration of the callback that writes the value it observes
SetterObservers ==
    \E x \in Vals :
        \/ AddAfterObserver(x, Setter)
        \/ RemoveAfterObserver(x, Setter)

Steps == StepInvoke \/ StepStore \/ StepReturn

NextValue ==
    \/ Observers
    \/ Steps
    \/ StepBindSecond
    \/ \E x \in Vals, v \in PyVals : CallSet(x, v)
    \/ \E x \in Vals, y \in Vals \cup {NotAnOV} : CallBindTo(x, y) \/ CallUnbindFrom(x, y)
    \/ \E x \in Vals, y \in Vals : CallBind(x, y) \/ CallUnbind(x, y)

SpecValue == InitValue /\ [][NextValue]_vars

\* ObservableDict()
InitDict ==
    /\ live = {"od"}
    /\ value = [x \in Vals |-> None]
    /\ InitCommon

NextDictCalls ==
    \/ \E key \in Keys, v \in PyVals :
           DictSetItem(key, v) \/ DictPop(key, v) \/ DictSetDefault(key, v)
    \/ \E key \in Keys : DictDelItem(key)
    \/ DictPopItem
    \/ DictClear

NextDict == Observers \/ Steps \/ NextDictCalls

SpecDict == InitDict /\ [][NextDict]_vars

\* ObservableDict(), written by item assignment and by update
NextUpdate ==
    \/ Observers
    \/ Steps
    \/ StepUpdate
    \/ \E key \in Keys, v \in PyVals : DictSetItem(key, v)
    \/ \E data \in DataArgs, kvargs \in KwArgs : DictUpdate(data, kvargs)

SpecUpdate == InitDict /\ [][NextUpdate]_vars

\* ObservableDict() with observers that edit the observer lists
NextEdit ==
    \/ Observers
    \/ EditObservers
    \/ Steps
    \/ \E key \in Keys : DictSetItem(key, MaxVal)
    \/ DictClear

SpecEdit == InitDict /\ [][NextEdit]_vars

\* ObservableValues with an after-observer that calls set on the value
NextReentrant ==
    \/ Observers
    \/ SetterObservers
    \/ Steps
    \/ \E x \in Vals, v \in PyVals : CallSet(x, v)

SpecReentrant == InitValue /\ [][NextReentrant]_vars

\* ObservableList()
InitList ==
    /\ live = {"ol"}
    /\ value = [x \in Vals |-> None]
    /\ InitCommon

NextListCalls ==
    \/ \E v \in Elems : ListAppendCall(v) \/ ListRemoveCall(v)
    \/ \E i \in Indexes, v \in Elems : ListInsertCall(i, v) \/ ListSetItemCall(i, v)
    \/ \E i \in Indexes : ListPopCall(i) \/ ListDelItemCall(i)
    \/ \E it \in Iterables : ListExtendCall(it) \/ ListIAdd(it)
    \/ \E reverse \in BOOLEAN : ListSortCall(reverse)
    \/ ListClearCall
    \/ ListReverseCall

NextList == Observers \/ Steps \/ NextListCalls

SpecList == InitList /\ [][NextList]_vars

\* ObservableObject()
InitObject ==
    /\ live = {"oo"}
    /\ value = [x \in Vals |-> None]
    /\ InitCommon

NextObjectCalls ==
    \/ \E name \in PublicNames \cup PrivateNames, v \in PyVals : ObjSetAttr(name, v)
    \/ \E name \in PublicNames \cup PrivateNames : ObjDelAttr(name)

NextObject == Observers \/ Steps \/ NextObjectCalls

SpecObject == InitObject /\ [][NextObject]_vars

Init == InitValue \/ InitDict \/ InitList \/ InitObject

Next == NextValue \/ NextDictCalls \/ NextListCalls \/ NextObjectCalls

Spec == Init /\ [][Next]_vars

\* a public call runs to completion once it has started
Execute == Steps \/ StepBindSecond

FairSpecValue == SpecValue /\ WF_vars(Execute)

(***************************************************************************)
(* Properties.                                                             *)
(***************************************************************************)
\* x is bound to y in binding relation bm with its lambda in y's list in ao
BoundTo(bm, ao, x, y) == y \in DOMAIN bm[x] /\ bm[x][y] \in Range(ao[y])

\* the number of times obj's storage was written during the call
StoreCount(obj) ==
    Cardinality({k \in 1 .. Len(events) : events[k].phase = "after" /\ events[k].obj = obj})

BindReturned ==
    /\ call.op = "bind"
    /\ result.status = "returned"
    /\ call.pre.value[call.obj] # call.pre.value[call.arg]

\* C1 as stated: after bind(a, b) returns, a.get() and b.get() both equal the
\* value b held at the moment of the call.
C1_BothTakeSecond ==
    BindReturned =>
        /\ value[call.obj] = call.pre.value[call.arg]
        /\ value[call.arg] = call.pre.value[call.arg]

\* C1 amended: after bind(a, b) returns, a.get() and b.get() both equal the
\* value a held at the moment of the call.
C1_BothTakeFirst ==
    BindReturned =>
        /\ value[call.obj] = call.pre.value[call.obj]
        /\ value[call.arg] = call.pre.value[call.obj]

C1_Witness ==
    /\ BindReturned
    /\ value[call.obj] = call.pre.value[call.obj]
    /\ value[call.arg] = call.pre.value[call.obj]
    /\ BoundTo(bindingMap, afterObs, call.obj, call.arg)
    /\ BoundTo(bindingMap, afterObs, call.arg, call.obj)

\* C2 as stated: when a and b are bound by bind(a, b), a.unbind_from(b)
\* succeeds, removes a's forwarding observer from b's after-observer list and
\* drops b from a's binding relation.
C2_UnbindFromSucceeds ==
    ( /\ call.op = "unbind_from"
      /\ call.arg \in Vals
      /\ call.arg # call.obj
      /\ BoundTo(call.preBinding, call.preAfter, call.obj, call.arg)
      /\ BoundTo(call.preBinding, call.preAfter, call.arg, call.obj) )
    => /\ result.status = "returned"
       /\ call.preBinding[call.obj][call.arg] \notin Range(afterObs[call.arg])
       /\ call.arg \notin DOMAIN bindingMap[call.obj]

\* a set(v) on one of two values that are bound to each other
SetOnBoundPair ==
    /\ call.op = "set"
    /\ \E y \in Vals \ {call.obj} :
          /\ BoundTo(call.preBinding, call.preAfter, call.obj, y)
          /\ BoundTo(call.preBinding, call.preAfter, y, call.obj)

InSyncBefore == \A x \in Vals : call.pre.value[x] = call.pre.value[call.obj]

C3_Safe ==
    SetOnBoundPair =>
        /\ \A x \in Vals : StoreCount(x) <= 1
        /\ result.status = "returned" => value[call.obj] = call.arg
        /\ result.status = "returned" /\ InSyncBefore => \A x \in Vals : value[x] = call.arg

Expected(obj, pre, ev) ==
    CASE obj \in Vals -> ev.new
      [] obj = "od" /\ ev.op \in {"create", "modify"} -> DictSet(pre, ev.loc, ev.new)
      [] obj = "od" /\ ev.op = "delete" -> DictDel(pre, ev.loc)
      [] obj = "od" /\ ev.op = "clear" -> <<>>
      [] obj = "ol" /\ ev.op = "append" -> pre \o <<ev.new>>
      [] obj = "ol" /\ ev.op = "insert" -> ListInsert(pre, ev.loc, ev.new)
      [] obj = "ol" /\ ev.op = "modify" -> ListSetItem(pre, ev.loc, ev.new)
      [] obj = "ol" /\ ev.op = "delete" -> ListPop(pre, ev.loc)
      [] obj = "ol" /\ ev.op = "clear" -> <<>>
      [] obj = "ol" /\ ev.op = "extend" -> pre \o ev.new
      [] obj = "ol" /\ ev.op = "reverse" -> ListReverse(pre)
      [] obj = "ol" /\ ev.op = "sort" -> ListSort(pre, ev.new = PyBool(TRUE))
      [] obj = "oo" /\ ev.op \in {"create", "modify"} -> MapPut(pre, ev.loc, ev.new)
      [] obj = "oo" /\ ev.op = "delete" -> MapDel(pre, ev.loc)

\* the positions of the log that belong to dispatch phase of call fid
Entries(fid, phase) == {k \in 1 .. Len(log) : log[k].fid = fid /\ log[k].phase = phase}

\* C4: a before-observer runs while the storage still holds the content from
\* before the call, an after-observer runs when the storage holds the content
\* the call produces, and no after-observer of a call runs before all of the
\* call's before-observers have run.
C4_BeforeSeesOldAfterSeesNew ==
    \A k \in 1 .. Len(log) :
        /\ log[k].phase = "before" => log[k].now = log[k].pre
        /\ log[k].phase = "after" =>
              /\ log[k].now = Expected(log[k].obj, log[k].pre, log[k].ev)
              /\ Cardinality(Entries(log[k].fid, "before")) = Len(beforeObs[log[k].obj])
              /\ \A j \in Entries(log[k].fid, "before") : j < k

C4_Witness ==
    \E j, k \in 1 .. Len(log) :
        /\ log[j].fid = log[k].fid
        /\ log[j].phase = "before" /\ log[k].phase = "after"
        /\ log[k].now # log[k].pre
        /\ log[k].obj \in Containers

\* a write of the value that is stored already
NoopWrite ==
    \/ call.op = "set" /\ call.pre.value[call.obj] = call.arg
    \/ /\ call.op = "dict.__setitem__"
       /\ DictHas(call.pre.od, call.arg)
       /\ DictGet(call.pre.od, call.arg) = call.arg2
    \/ /\ call.op = "object.__setattr__"
       /\ ~IsReserved(call.arg)
       /\ HasAttr(call.pre.oo, call.arg)
       /\ GetAttr(call.pre.oo, call.arg) = call.arg2
    \/ /\ call.op = "list.__setitem__"
       /\ IndexOk(call.pre.ol, call.arg)
       /\ ListGet(call.pre.ol, call.arg) = call.arg2

\* C5: a write whose new value equals the stored value dispatches no before
\* event and no after event and leaves the storage unchanged.
C5_NoopWriteIsSilent ==
    NoopWrite =>
        /\ events = <<>>
        /\ log = <<>>
        /\ Storage = call.pre
        /\ result.status = "returned"

C5_Witness ==
    /\ NoopWrite
    /\ call.op = "dict.__setitem__"
    /\ beforeObs["od"] # <<>>
    /\ afterObs["od"] # <<>>
    /\ events = <<>>

\* C6: a raising observer ends the call with its error; the observers after
\* it in its list are not invoked; if it is a before-observer, no after
\* dispatch happens and the storage is as before the call; if it is an
\* after-observer, the storage keeps the mutation.
C6_ObserverErrorPropagates ==
    \A k \in 1 .. Len(log) :
        log[k].cb.kind = "raise" =>
            /\ k = Len(log)
            /\ Idle
            /\ result.status = "raised" /\ result.err = "CallbackError"
            /\ Cardinality(Entries(log[k].fid, log[k].phase)) = log[k].pos
            /\ log[k].phase = "before" =>
                  /\ Entries(log[k].fid, "after") = {}
                  /\ \A e \in 1 .. Len(events) :
                        ~(events[e].fid = log[k].fid /\ events[e].phase = "after")
                  /\ Content(log[k].obj) = log[k].pre
                  /\ log[k].fid = 1 => Storage = call.pre
            /\ log[k].phase = "after" =>
                  Content(log[k].obj) = Expected(log[k].obj, log[k].pre, log[k].ev)

C6_Witness ==
    /\ log # <<>>
    /\ log[Len(log)].cb.kind = "raise"
    /\ log[Len(log)].phase = "after"
    /\ log[Len(log)].pos < Len(afterObs[log[Len(log)].obj])
    /\ Content(log[Len(log)].obj) # log[Len(log)].pre
    /\ result.status = "raised"

\* C7 as stated: the content of the ObservableList or the ObservableDict
\* never changes without a before dispatch and an after dispatch of the call
\* that changes it.
C7_NoSilentMutation ==
    (call.obj \in {"od", "ol"} /\ Content(call.obj) # call.pre[call.obj]) =>
        /\ \E e \in 1 .. Len(events) : events[e].phase = "before"
        /\ \E e \in 1 .. Len(events) : events[e].phase = "after"

\* the callbacks a dispatch has invoked are, in order, the head of its list
InvokedInOrder(e) ==
    LET L == IF e.phase = "before" THEN beforeObs[e.obj] ELSE afterObs[e.obj]
        ks == Entries(e.fid, e.phase)
    IN /\ Cardinality(ks) <= e.n
       /\ \A k \in ks :
             /\ log[k].pos = Cardinality({j \in ks : j <= k})
             /\ log[k].cb = L[log[k].pos]

\* C8: when a call has returned, each of its dispatches has invoked every
\* callback of its observer list, once per registration and in registration
\* order; add_before_observer and add_after_observer never fail and append
\* the callback to their own list, also when it is registered already.
C8_EveryCallbackInOrder ==
    /\ \A e \in 1 .. Len(events) :
          /\ InvokedInOrder(events[e])
          /\ result.status = "returned" =>
                Cardinality(Entries(events[e].fid, events[e].phase)) = events[e].n
    /\ call.op = "add_before_observer" =>
          /\ result.status = "returned"
          /\ beforeObs[call.obj] = call.preBefore[call.obj] \o <<call.arg>>
          /\ afterObs = call.preAfter
    /\ call.op = "add_after_observer" =>
          /\ result.status = "returned"
          /\ afterObs[call.obj] = call.preAfter[call.obj] \o <<call.arg>>
          /\ beforeObs = call.preBefore

C8_Witness ==
    /\ result.status = "returned"
    /\ \E e \in 1 .. Len(events) :
          /\ events[e].phase = "after"
          /\ afterObs[events[e].obj] = <<Obs(1), Obs(1)>>
          /\ Cardinality(Entries(events[e].fid, "after")) = 2

\* new is old without its first occurrence of cb
FirstOccurrenceRemoved(old, new, cb) ==
    \E k \in 1 .. Len(old) :
        /\ old[k] = cb
        /\ \A j \in 1 .. (k - 1) : old[j] # cb
        /\ Len(new) = Len(old) - 1
        /\ \A j \in 1 .. Len(new) : new[j] = IF j < k THEN old[j] ELSE old[j + 1]

\* C9: remove_before_observer(cb) and remove_after_observer(cb) remove the
\* first occurrence of cb from their own list and leave the rest and the other
\* list as they are; when cb is not in the list they raise ValueError and
\* change nothing.
C9_RemoveFirstOccurrence ==
    /\ call.op = "remove_before_observer" =>
          /\ afterObs = call.preAfter
          /\ \A o \in Objs \ {call.obj} : beforeObs[o] = call.preBefore[o]
          /\ IF call.arg \in Range(call.preBefore[call.obj])
             THEN /\ result.status = "returned"
                  /\ FirstOccurrenceRemoved(call.preBefore[call.obj], beforeObs[call.obj], call.arg)
             ELSE /\ result.status = "raised" /\ result.err = "ValueError"
                  /\ beforeObs = call.preBefore
    /\ call.op = "remove_after_observer" =>
          /\ beforeObs = call.preBefore
          /\ \A o \in Objs \ {call.obj} : afterObs[o] = call.preAfter[o]
          /\ IF call.arg \in Range(call.preAfter[call.obj])
             THEN /\ result.status = "returned"
                  /\ FirstOccurrenceRemoved(call.preAfter[call.obj], afterObs[call.obj], call.arg)
             ELSE /\ result.status = "raised" /\ result.err = "ValueError"
                  /\ afterObs = call.preAfter

C9_Witness ==
    /\ call.op = "remove_after_observer"
    /\ call.preAfter[call.obj] = <<Obs(1), Raiser, Obs(1)>>
    /\ call.arg = Obs(1)
    /\ afterObs[call.obj] = <<Raiser, Obs(1)>>

\* the dispatches of a call that wrote key with event ev and returned
OnePair(obj, ev) ==
    /\ Len(events) = 2
    /\ events[1].phase = "before" /\ events[2].phase = "after"
    /\ \A e \in 1 .. 2 : events[e].obj = obj /\ events[e].ev = ev

\* C10: od[key] = value dispatches one before/after pair tagged create with
\* old_value None when key is absent (also when value is None), and one pair
\* tagged modify with the previous value when key is present with another
\* value.
C10_SetItemCreateOrModify ==
    call.op = "dict.__setitem__" =>
        LET key == call.arg
            v == call.arg2
            ev == IF DictHas(call.pre.od, key)
                  THEN Event("modify", key, DictGet(call.pre.od, key), v)
                  ELSE Event("create", key, None, v)
        IN (~DictHas(call.pre.od, key) \/ DictGet(call.pre.od, key) # v) =>
              /\ events # <<>>
              /\ events[1].phase = "before" /\ events[1].ev = ev
              /\ result.status = "returned" => OnePair("od", ev)

C10_Witness ==
    /\ call.op = "dict.__setitem__"
    /\ ~DictHas(call.pre.od, call.arg)
    /\ call.arg2 = None
    /\ result.status = "returned"
    /\ OnePair("od", Event("create", call.arg, None, None))
    /\ DictHas(od, call.arg)

(***************************************************************************)
(* What a run of item assignments does to a dict and which events it       *)
(* dispatches.                                                             *)
(***************************************************************************)
RECURSIVE WriteAll(_, _)
WriteAll(d, ws) ==
    IF ws = <<>> THEN d ELSE WriteAll(DictSet(d, Head(ws)[1], Head(ws)[2]), Tail(ws))

RECURSIVE WriteEvents(_, _)
WriteEvents(d, ws) ==
    IF ws = <<>> THEN <<>>
    ELSE LET key == Head(ws)[1]
             v == Head(ws)[2]
             changed == ~DictHas(d, key) \/ DictGet(d, key) # v
             ev == IF DictHas(d, key) THEN Event("modify", key, DictGet(d, key), v)
                   ELSE Event("create", key, None, v)
         IN (IF changed THEN <<ev>> ELSE <<>>) \o WriteEvents(DictSet(d, key, v), Tail(ws))

\* the dispatches of the call are one before/after pair per event of evs, in order
EventPairs(obj, evs) ==
    /\ Len(events) = 2 * Len(evs)
    /\ \A k \in 1 .. Len(evs) :
          /\ events[2 * k - 1].phase = "before" /\ events[2 * k].phase = "after"
          /\ events[2 * k - 1].obj = obj /\ events[2 * k].obj = obj
          /\ events[2 * k - 1].ev = evs[k] /\ events[2 * k].ev = evs[k]

UpdateReturned ==
    /\ call.op = "dict.update"
    /\ call.arg.kind # "none" /\ call.arg.items # <<>>
    /\ result.status = "returned"

\* C11 as stated: update(data, **kwargs) with non-empty data, a dict or a
\* sequence of pairs, writes the items of data and then the items of kwargs:
\* one create-or-modify pair per changed key in that order, and on return the
\* dict holds every key of kwargs with its given value.
C11_UpdateWritesDataThenKwargs ==
    UpdateReturned =>
        LET ws == call.arg.items \o call.arg2
        IN /\ EventPairs("od", WriteEvents(call.pre.od, ws))
           /\ od = WriteAll(call.pre.od, ws)
           /\ \A k \in 1 .. Len(call.arg2) :
                 /\ DictHas(od, call.arg2[k][1])
                 /\ DictGet(od, call.arg2[k][1]) = call.arg2[k][2]

\* what update does: the items of a dict and nothing else, the items of a
\* sequence and then those of kwargs
UpdateWritesInOrder ==
    UpdateReturned =>
        LET ws == IF call.arg.kind = "dict" THEN call.arg.items
                  ELSE call.arg.items \o call.arg2
        IN /\ EventPairs("od", WriteEvents(call.pre.od, ws))
           /\ od = WriteAll(call.pre.od, ws)

FalsyData == call.op = "dict.update" /\ (call.arg.kind = "none" \/ call.arg.items = <<>>)

C14_PopItemTakesLast ==
    call.op = "dict.popitem" =>
        LET pre == call.pre.od
        IN IF pre # <<>>
           THEN LET ev == Event("delete", pre[Len(pre)][1], pre[Len(pre)][2], None)
                IN /\ events # <<>>
                   /\ events[1].phase = "before" /\ events[1].ev = ev
                   /\ result.status = "returned" =>
                         /\ OnePair("od", ev)
                         /\ od = SubSeq(pre, 1, Len(pre) - 1)
                         /\ result.ret = pre[Len(pre)]
           ELSE /\ Idle
                /\ result.status = "raised"
                /\ events = <<>> /\ log = <<>>
                /\ od = <<>>

C14_Witness ==
    /\ call.op = "dict.popitem"
    /\ Len(call.pre.od) = 2
    /\ result.status = "returned"
    /\ result.ret = call.pre.od[2]
    /\ od = <<call.pre.od[1]>>
    /\ Len(log) = 2

\* C15 as stated: del ol[i] with a valid index dispatches one before and one
\* after event tagged delete with (i, removed value, None), and on return the
\* element that was at i is gone and the list is one shorter.
C15_DelItemDeletes ==
    ( /\ call.op = "list.__delitem__"
      /\ IndexOk(call.pre.ol, call.arg)
      /\ Raiser \notin Range(beforeObs["ol"]) \cup Range(afterObs["ol"])
      /\ Idle )
    => /\ result.status = "returned"
       /\ OnePair("ol", Event("delete", call.arg, ListGet(call.pre.ol, call.arg), None))
       /\ ol = ListPop(call.pre.ol, call.arg)

\* what list.insert(i, v) makes of s: v lands at i counted from the front for
\* i >= 0 and from the end for i < 0, at the nearest end when i is out of range
InsertedAt(s, i, v) ==
    LET k == IF i >= Len(s) THEN Len(s)
             ELSE IF i >= 0 THEN i
             ELSE IF i + Len(s) >= 0 THEN i + Len(s) ELSE 0
    IN SubSeq(s, 1, k) \o <<v>> \o SubSeq(s, k + 1, Len(s))

\* C16 as stated: insert(i, v) does not fail on the lookup of the old value
\* for any integer i; old_value is the value at i for 0 <= i < len and None
\* for i >= len; the value is inserted as list.insert does and one insert
\* pair is dispatched.
C16_InsertNeverFailsOnLookup ==
    call.op = "list.insert" =>
        LET i == call.arg
            pre == call.pre.ol
        IN /\ events # <<>>
           /\ events[1].phase = "before"
           /\ events[1].ev.op = "insert" /\ events[1].ev.loc = i /\ events[1].ev.new = call.arg2
           /\ (0 <= i /\ i < Len(pre)) => events[1].ev.old = pre[i + 1]
           /\ i >= Len(pre) => events[1].ev.old = None
           /\ result.status = "returned" =>
                 /\ OnePair("ol", events[1].ev)
                 /\ ol = InsertedAt(pre, i, call.arg2)

\* insert as the code has it: the lookup of the old value raises IndexError
\* for i < -len, before any dispatch; every other index behaves as stated
InsertFailsBelowMinusLen ==
    call.op = "list.insert" =>
        LET i == call.arg
            pre == call.pre.ol
        IN IF i < 0 - Len(pre)
           THEN /\ Idle
                /\ result.status = "raised" /\ result.err = "IndexError"
                /\ events = <<>> /\ ol = pre
           ELSE /\ events # <<>>
                /\ events[1].ev.old = (IF i >= Len(pre) THEN None
                                       ELSE IF i >= 0 THEN pre[i + 1] ELSE pre[i + Len(pre) + 1])
                /\ result.status = "returned" =>
                      /\ OnePair("ol", events[1].ev)
                      /\ ol = InsertedAt(pre, i, call.arg2)

\* C17: extend(iterable) dispatches one pair tagged extend with the length
\* before the call as locator, old_value None and the iterable as new_value,
\* whatever the number of elements; clear() of the list and of the dict
\* dispatches one pair tagged clear with three None, whatever the size.
C17_BulkOperationsDispatchOnce ==
    /\ call.op = "list.extend" =>
          LET ev == Event("extend", Len(call.pre.ol), None, call.arg)
          IN /\ events # <<>> /\ Len(events) <= 2
             /\ events[1].phase = "before" /\ events[1].ev = ev
             /\ result.status = "returned" =>
                   /\ OnePair("ol", ev)
                   /\ ol = call.pre.ol \o call.arg
    /\ call.op \in {"list.clear", "dict.clear"} =>
          LET ev == Event("clear", None, None, None)
          IN /\ events # <<>> /\ Len(events) <= 2
             /\ events[1].phase = "before" /\ events[1].ev = ev
             /\ result.status = "returned" =>
                   /\ OnePair(call.obj, ev)
                   /\ Content(call.obj) = <<>>

C17_Witness ==
    /\ call.op = "list.extend"
    /\ Len(call.arg) = 2
    /\ call.pre.ol # <<>>
    /\ result.status = "returned"
    /\ Len(log) = 2
    /\ Len(ol) = Len(call.pre.ol) + 2

\* an assignment oo.name = v that has returned wrote name and dispatched ev
SetAttrDispatches(ev) ==
    /\ events # <<>>
    /\ events[1].phase = "before" /\ events[1].obj = "oo" /\ events[1].ev = ev
    /\ result.status = "returned" =>
          /\ OnePair("oo", ev)
          /\ oo = MapPut(call.pre.oo, call.arg, call.arg2)

ReservedIsPlainStore ==
    /\ Idle
    /\ result.status = "returned"
    /\ events = <<>> /\ log = <<>>
    /\ oo = MapPut(call.pre.oo, call.arg, call.arg2)

\* C18 as stated: the first assignment to any name that does not start with
\* "_" dispatches one pair tagged create with old_value None; a later
\* assignment of another value to the name dispatches modify with the value
\* assigned before; an assignment to a name that starts with "_" stores the
\* value and dispatches nothing.
C18_FirstAssignmentCreates ==
    call.op = "object.__setattr__" =>
        LET name == call.arg
            v == call.arg2
            pre == call.pre.oo
        IN IF IsReserved(name) THEN ReservedIsPlainStore
           ELSE IF name \notin DOMAIN pre
           THEN SetAttrDispatches(Event("create", name, None, v))
           ELSE pre[name] # v => SetAttrDispatches(Event("modify", name, pre[name], v))

\* assignment as the code has it: hasattr finds the attributes of the class
\* too, so the first assignment to a name the class defines (CREATE, MODIFY,
\* DELETE, a method) dispatches modify with the class's value as old_value;
\* every other name behaves as stated
SetAttrSeesClassAttributes ==
    call.op = "object.__setattr__" =>
        LET name == call.arg
            v == call.arg2
            pre == call.pre.oo
        IN IF IsReserved(name) THEN ReservedIsPlainStore
           ELSE IF name \in DOMAIN pre
           THEN pre[name] # v => SetAttrDispatches(Event("modify", name, pre[name], v))
           ELSE IF name \in ClassAttrs
           THEN ClassValue(name) # v =>
                   SetAttrDispatches(Event("modify", name, ClassValue(name), v))
           ELSE SetAttrDispatches(Event("create", name, None, v))

\* the number of times cb occurs in the list L
Occurrences(L, cb) == Cardinality({j \in 1 .. Len(L) : L[j] = cb})

\* the number of times dispatch e has invoked cb
Invocations(e, cb) == Cardinality({k \in Entries(e.fid, e.phase) : log[k].cb = cb})

\* the callbacks that were removed from the list of dispatch e while it ran
RemovedDuring(e) ==
    {cb \in {SelfRemover} : Invocations(e, SelfRemover) > 0}
    \cup {cb \in {Obs(1)} : Invocations(e, RemoveOther) > 0}

\* the callbacks that were added to the list of dispatch e while it ran
AddedDuring(e) == {cb \in {Obs(2)} : Invocations(e, Adder) > 0}

\* C19 as stated: when a callback removes itself or another observer from
\* the list that is being dispatched, or adds one, every other callback that
\* was in the list when the dispatch started and was not removed is invoked
\* once per registration; none is skipped.
C19_NoCallbackSkipped ==
    result.status = "returned" =>
        \A e \in 1 .. Len(events) :
            \A cb \in Range(events[e].cbs) \ RemovedDuring(events[e]) :
                /\ Invocations(events[e], cb) >= Occurrences(events[e].cbs, cb)
                /\ cb \notin AddedDuring(events[e]) =>
                      Invocations(events[e], cb) = Occurrences(events[e].cbs, cb)

\* the loops as the code has them: a dispatch in which no callback removes
\* an observer invokes every callback of the list it started with, and the
\* ones added meanwhile
NoRemovalNoSkip ==
    result.status = "returned" =>
        \A e \in 1 .. Len(events) :
            RemovedDuring(events[e]) = {} =>
                \A cb \in Range(events[e].cbs) :
                    /\ Invocations(events[e], cb) >= Occurrences(events[e].cbs, cb)
                    /\ cb \notin AddedDuring(events[e]) =>
                          Invocations(events[e], cb) = Occurrences(events[e].cbs, cb)

\* the number of forwarding observers into x in the after-observer list of y
Forwarders(x, y) ==
    Cardinality({k \in 1 .. Len(afterObs[y]) :
                    afterObs[y][k].kind = "fwd" /\ afterObs[y][k].target = x})

\* C20 as stated: after any sequence of bind_to, unbind_from, bind and unbind
\* calls, failed ones and repeated ones included, the number of forwarding
\* observers into x in y's after-observer list is 1 if y is a key of x's
\* binding relation and 0 otherwise, and the handle recorded for y is the
\* observer installed.
C20_BindingMatchesObservers ==
    Idle =>
        \A x \in Vals, y \in Vals :
            /\ Forwarders(x, y) = (IF y \in DOMAIN bindingMap[x] THEN 1 ELSE 0)
            /\ y \in DOMAIN bindingMap[x] => bindingMap[x][y] \in Range(afterObs[y])

\* the relation as the code keeps it: the handle recorded for y in x's
\* relation is always an observer in y's list that forwards into x
RecordedHandleIsInstalled ==
    \A x \in Vals, y \in Vals :
        y \in DOMAIN bindingMap[x] =>
            /\ bindingMap[x][y] \in Range(afterObs[y])
            /\ bindingMap[x][y].target = x
            /\ Forwarders(x, y) >= 1

\* the after dispatches on x of the call, in the order x was stored
Stores(x) == {e \in 1 .. Len(events) : events[e].phase = "after" /\ events[e].obj = x}

\* the position in events of the after dispatch of call fid
StoreIndex(fid) == CHOOSE e \in 1 .. Len(events) : events[e].phase = "after" /\ events[e].fid = fid

\* the after-events the observer at position p of x's list has received
Received(x, p) ==
    {k \in 1 .. Len(log) : log[k].phase = "after" /\ log[k].obj = x /\ log[k].pos = p}

\* a set by the user during which an after-observer has called set on the value
ReentrantSet ==
    /\ call.op = "set"
    /\ result.status = "returned"
    /\ \E k \in 1 .. Len(log) :
          log[k].cb = Setter /\ log[k].phase = "after" /\ log[k].obj = call.obj
    /\ Cardinality(Stores(call.obj)) > 1

\* C21 as stated: when an after-observer calls set on the value during
\* dispatch, then once the outermost set has returned every after-observer
\* has received the after-events in the order in which the value changed, and
\* the new_value of the last after-event it received equals get().
C21_ObserversSeeChangesInOrder ==
    ReentrantSet =>
        \A p \in 1 .. Len(afterObs[call.obj]) :
            LET ks == Received(call.obj, p)
            IN /\ \A j, k \in ks : j < k => StoreIndex(log[j].fid) < StoreIndex(log[k].fid)
               /\ \A k \in ks : (\A j \in ks : j <= k) => log[k].ev.new = value[call.obj]

\* the set as the code has it: every store is announced to every
\* after-observer, the value on return is the new_value of the last store,
\* and a set without a re-entrant call announces its one store in order
EveryStoreIsAnnounced ==
    (call.op = "set" /\ result.status = "returned") =>
        /\ \A e \in Stores(call.obj) :
              /\ Cardinality(Entries(events[e].fid, "after")) = Len(afterObs[call.obj])
              /\ (\A d \in Stores(call.obj) : d <= e) => events[e].ev.new = value[call.obj]
        /\ Cardinality(Stores(call.obj)) <= 1 =>
              \A k \in 1 .. Len(log) :
                  log[k].phase = "after" => log[k].ev.new = value[call.obj]

====
